---- MODULE Spec2Model ----
(***************************************************************************)
(* EtcdDistLock (service/lock.go): a distributed lock built on the etcd    *)
(* client's concurrency package.  Every Lock call opens a session (a lease *)
(* kept alive by a background task), enrolls a key under lockPrefix bound  *)
(* to that lease and waits until no key with a smaller create revision is  *)
(* left.  The coordination store is modelled by its leases and by the keys *)
(* under the one lockPrefix all instances share; time advances in ticks.   *)
(* What the calls into the concurrency package do (NewSession, Mutex.Lock, *)
(* Mutex.Unlock, Session.Close) is modelled at the lines that call them.   *)
(* The module also holds the user service's Register handler, the          *)
(* gateway's RateLimit middleware, the MicroRateLimit interceptor and one  *)
(* EtcdDistLock instance shared by two goroutines, each with variables and *)
(* a specification of its own.                                             *)
(***************************************************************************)
EXTENDS Integers, Sequences, FiniteSets, TLC

\* ------------------------------------------------------------ bounds
MaxLease == 2      \* sessions (leases) the store grants in one run
TTLTicks == 1      \* the ttl argument of Lock, in ticks of the model's clock

\* Two of main's client goroutines, each with its own EtcdDistLock instance.
Clients == {1, 2}
Leases  == 1..MaxLease

\* Outcomes of a request to the store: it answers, or it cannot be reached.
Answers == BOOLEAN
Up      == {TRUE}

\* ------------------------------------------------------------ state
VARIABLES
    leases,       \* lease id -> remaining ticks (0: not granted, revoked or expired)
    keys,         \* lease id -> create revision of the key lockPrefix+leaseID (0: no key)
    nextLease,    \* leases granted so far
    nextRev,      \* store revision counter (advanced by each put)
    owner,        \* live lease id -> the client whose session it is (0: none)
    renewing,     \* leases that a session's keep-alive task keeps renewing
    etcdClient,   \* l.etcdClient: "open" or "closed"
    session,      \* l.session: lease id of the saved session (0: nil)
    mutex,        \* l.mutex: myRev of the saved mutex (0: nil)
    pc,           \* position of the goroutine using the instance ("dead": process killed)
    lsession,     \* Lock's local variable session (0: none)
    myRev,        \* Lock's local mutex: its myRev (0: not enrolled)
    ctxDone,      \* the ctx of the pending Lock call is cancelled or past its deadline
    pend,         \* what the pending call has met so far
    lockState,    \* "Idle": no Lock returned nil yet; "Held": Lock returned nil and no
                  \* Unlock returned nil since; "Released": Unlock returned nil since
    lastGrant,    \* create revision of the key the latest nil-returning Lock enrolled
    ret           \* the call that returned in the last step, if any, and what it reported

\* The user service (service/handler/user_handler.go).
VARIABLES
    userDB,       \* the package-level map userDB: the usernames registered
    regPc,        \* position of each Register call ("idle", "check", "insert", "done")
    req,          \* each call's RegisterRequest
    rsp,          \* each call's RegisterResponse (Code -1: not written yet)
    regFatal      \* the Go runtime stopped the service ("concurrent map writes")

\* The gateway's RateLimit middleware and the Redis keys it works on.
VARIABLES
    tokens,       \* value of the key limitKey (a key that is absent counts as 0)
    lastRefill,   \* value of the key limitKey:last_refill (-1: absent)
    refillExpiry, \* the time at which limitKey:last_refill expires
    now,          \* the clock, in seconds
    rlPc,         \* position of each request in the middleware
    rlLastRefill, \* each request's local lastRefill
    rlNow,        \* each request's local now
    rlOut         \* what the middleware did with the request ("none" yet, "next",
                  \* "429", "500")

\* The service's MicroRateLimit interceptor and the Hystrix command it runs.
VARIABLES
    inFlight,     \* tickets of the Hystrix command that are taken
    circuitOpen,  \* the command's circuit is open
    mPc,          \* position of each intercepted call ("idle", "do", "running", "done")
    mNext,        \* what next returned to the call ("none": next not run or not finished)
    mWhy,         \* how hystrix.Do ended ("none" yet, "ran", "max", "open", "timeout")
    mRet          \* what the interceptor returned ("none" yet, "nil", "err")

\* One EtcdDistLock instance used by two goroutines (service/lock.go).
VARIABLES
    shLive,        \* the leases of the instance's sessions that are live in the store
    shKeyed,       \* the leases whose key is under the prefix (a key's create
                   \* revision grows with its lease id)
    shCount,       \* sessions opened so far
    sharedSession, \* l.session of the shared instance (lease id, 0: nil)
    sharedMutex,   \* l.mutex of the shared instance (lease id of its session, 0: nil)
    gPc,           \* position of each goroutine
    gSession,      \* Lock's local session in each goroutine
    gMine,         \* the lease with which the goroutine's Lock returned nil, until
                   \* its own Unlock returns
    gReleased,     \* the lease whose key the goroutine's Unlock deleted (line 90)
    gClosed,       \* the lease whose session the goroutine's Unlock closed (line 95)
    gOut           \* what the goroutine's last call returned

lockVars == <<leases, keys, nextLease, nextRev, owner, renewing, etcdClient,
              session, mutex, pc, lsession, myRev, ctxDone, pend, lockState, lastGrant, ret>>

regVars == <<userDB, regPc, req, rsp, regFatal>>

rlVars == <<tokens, lastRefill, refillExpiry, now, rlPc, rlLastRefill, rlNow, rlOut>>

microVars == <<inFlight, circuitOpen, mPc, mNext, mWhy, mRet>>

sharedVars == <<shLive, shKeyed, shCount, sharedSession, sharedMutex, gPc, gSession,
                gMine, gReleased, gClosed, gOut>>

vars == <<lockVars, regVars, rlVars, microVars, sharedVars>>

\* What a step of the lock, of Register, of RateLimit and of MicroRateLimit leaves
\* alone.
outsideLock == <<regVars, rlVars, microVars, sharedVars>>
outsideRegister == <<lockVars, rlVars, microVars, sharedVars>>
outsideRateLimit == <<lockVars, regVars, microVars, sharedVars>>
outsideMicro == <<lockVars, regVars, rlVars, sharedVars>>
outsideShared == <<lockVars, regVars, rlVars, microVars>>

storeVars  == <<leases, keys, nextLease, nextRev, owner, renewing>>
localVars  == <<session, mutex, pc, lsession, myRev, ctxDone, pend, lockState, lastGrant>>

\* What a call has met: why mutex.Lock failed (or "waited" when it had to wait),
\* whether a request that removes the caller's key succeeded, whether the saved
\* session's lease was already gone when the call began, whether a store request
\* of the call failed.
Pend(cause, cleaned, lost, storeErr) ==
    [cause |-> cause, cleaned |-> cleaned, lost |-> lost, storeErr |-> storeErr]

NoPend == Pend("none", FALSE, FALSE, FALSE)

\* A returned call: the operation, its caller, the error returned, the lease it
\* worked on, whether the instance had a saved session when it was called, and
\* what the call met.
Ret(op, who, err, lease, held, met) ==
    [op |-> op, who |-> who, err |-> err, lease |-> lease, held |-> held,
     cause |-> met.cause, cleaned |-> met.cleaned, lost |-> met.lost,
     storeErr |-> met.storeErr]

NoRet == Ret("none", 0, "nil", 0, FALSE, NoPend)

\* ------------------------------------------------------------ the store
\* A request of client c reaches the store only through an open client; up says
\* whether the store answers it.
Reachable(c, up) == up /\ etcdClient[c] = "open"

\* A test that takes the caller's own entry for an earlier one.
NoEarlierKeyOwnCounted(r) == \A L \in Leases : keys[L] # 0 => keys[L] > r

\* A test that misses the entry enrolled just before the caller's.
NoEarlierKeyOffByOne(r) == \A L \in Leases : keys[L] # 0 => keys[L] >= r - 1

\* waitDeletes' and tryAcquire's test: a key under the prefix created before
\* revision r blocks the caller.
NoEarlierKey(r) == \A L \in Leases : keys[L] # 0 => keys[L] >= r

\* A table of the store (leases, keys, owners) after lease L is revoked: the lease
\* and the key attached to it are gone.
DropLease(f, L) == [f EXCEPT ![L] = 0]

\* ------------------------------------------------------------ the user service
NumCalls == 3      \* Register calls the service handles in one run

Calls == 1..NumCalls

\* Usernames and passwords of the requests; "" is the empty string.
Usernames == {"", "ann", "bob"}
Passwords == {"", "pw"}

NoReq == [Username |-> "", Password |-> ""]
NoRsp == [Code |-> -1, Message |-> ""]

\* The service after start: userDB is the empty map and no call is in progress.
RegisterInit ==
    /\ userDB = {}
    /\ regPc = [r \in Calls |-> "idle"]
    /\ req = [r \in Calls |-> NoReq]
    /\ rsp = [r \in Calls |-> NoRsp]
    /\ regFatal = FALSE

\* The server starts a handler goroutine for a request.
RegisterCall(r) ==
    /\ UNCHANGED outsideRegister
    /\ ~regFatal /\ regPc[r] = "idle"
    /\ \E u \in Usernames, p \in Passwords :
          req' = [req EXCEPT ![r] = [Username |-> u, Password |-> p]]
    /\ regPc' = [regPc EXCEPT ![r] = "check"]
    /\ UNCHANGED <<userDB, rsp, regFatal>>

\* Register, lines 27-38: the parameter check, then the lookup in userDB.
RegisterCheck(r) ==
    /\ UNCHANGED outsideRegister
    /\ ~regFatal /\ regPc[r] = "check"
    /\ IF req[r].Username = "" \/ req[r].Password = ""
       THEN /\ rsp' = [rsp EXCEPT ![r] = [Code |-> 1, Message |-> "empty"]]
            /\ regPc' = [regPc EXCEPT ![r] = "done"]
       ELSE IF req[r].Username \in userDB
            THEN /\ rsp' = [rsp EXCEPT ![r] = [Code |-> 1, Message |-> "exists"]]
                 /\ regPc' = [regPc EXCEPT ![r] = "done"]
            ELSE /\ regPc' = [regPc EXCEPT ![r] = "insert"]
                 /\ rsp' = rsp
    /\ UNCHANGED <<userDB, req, regFatal>>

\* Register, lines 40-53: the insert into userDB and the success response.  Two
\* goroutines writing the unsynchronized map at once is a data race: the write
\* goes through, or the runtime stops the process.
RegisterInsert(r) ==
    /\ UNCHANGED outsideRegister
    /\ ~regFatal /\ regPc[r] = "insert"
    /\ \/ /\ userDB' = userDB \cup {req[r].Username}
          /\ rsp' = [rsp EXCEPT ![r] = [Code |-> 0, Message |-> "ok"]]
          /\ regPc' = [regPc EXCEPT ![r] = "done"]
          /\ UNCHANGED regFatal
       \/ /\ \E q \in Calls \ {r} : regPc[q] = "insert"
          /\ regFatal' = TRUE
          /\ UNCHANGED <<userDB, rsp, regPc>>
    /\ UNCHANGED req

\* ------------------------------------------------------------ RateLimit
NumRequests == 2   \* requests of one client to one path (one limitKey) in one run
MaxNow == 3        \* seconds the clock runs
limit == 1         \* RateLimit's parameter limit
interval == 2      \* RateLimit's parameter interval, in seconds

Requests == 1..NumRequests

\* Redis before the first request: neither key exists.
RateLimitInit ==
    /\ tokens = 0
    /\ lastRefill = -1
    /\ refillExpiry = 0
    /\ now = 0
    /\ rlPc = [q \in Requests |-> "idle"]
    /\ rlLastRefill = [q \in Requests |-> 0]
    /\ rlNow = [q \in Requests |-> 0]
    /\ rlOut = [q \in Requests |-> "none"]

\* The key limitKey:last_refill exists: it was set and its expiry has not come.
LastRefillExists == lastRefill # -1 /\ now < refillExpiry

\* RateLimit, lines 71-76: SetNX of last_refill with expiry interval*2; a Redis
\* error answers 500 and aborts.
RateLimitSetNX(q) ==
    /\ UNCHANGED outsideRateLimit
    /\ rlPc[q] = "idle"
    /\ \/ /\ rlOut' = [rlOut EXCEPT ![q] = "500"]
          /\ rlPc' = [rlPc EXCEPT ![q] = "done"]
          /\ UNCHANGED <<lastRefill, refillExpiry>>
       \/ /\ IF LastRefillExists
             THEN UNCHANGED <<lastRefill, refillExpiry>>
             ELSE lastRefill' = now /\ refillExpiry' = now + interval * 2
          /\ rlPc' = [rlPc EXCEPT ![q] = "get"]
          /\ UNCHANGED rlOut
    /\ UNCHANGED <<tokens, now, rlLastRefill, rlNow>>

\* RateLimit, line 84: the tokens to add for the elapsed seconds.
TokensToAdd(elapsed) == (elapsed * limit) \div interval

\* RateLimit, lines 79-85: reads last_refill (0 when the key is gone) and the clock.
RateLimitGet(q) ==
    /\ UNCHANGED outsideRateLimit
    /\ rlPc[q] = "get"
    /\ rlLastRefill' = [rlLastRefill EXCEPT ![q] = IF LastRefillExists THEN lastRefill ELSE 0]
    /\ rlNow' = [rlNow EXCEPT ![q] = now]
    /\ rlPc' = [rlPc EXCEPT ![q] =
                   IF now - rlLastRefill'[q] > 0 /\ TokensToAdd(now - rlLastRefill'[q]) > 0
                   THEN "refill" ELSE "decr"]
    /\ UNCHANGED <<tokens, lastRefill, refillExpiry, now, rlOut>>

\* RateLimit, lines 87-88: IncrBy adds the tokens (no upper limit is applied) and
\* Set stores the request's now with expiry interval*2.
RateLimitRefill(q) ==
    /\ UNCHANGED outsideRateLimit
    /\ rlPc[q] = "refill"
    /\ tokens' = tokens + TokensToAdd(rlNow[q] - rlLastRefill[q])
    /\ lastRefill' = rlNow[q]
    /\ refillExpiry' = now + interval * 2
    /\ rlPc' = [rlPc EXCEPT ![q] = "decr"]
    /\ UNCHANGED <<now, rlLastRefill, rlNow, rlOut>>

\* RateLimit, lines 93-102: Decr takes a token, then the request is rejected when
\* the result is below zero and passed on otherwise.
RateLimitDecr(q) ==
    /\ UNCHANGED outsideRateLimit
    /\ rlPc[q] = "decr"
    /\ tokens' = tokens - 1
    /\ rlOut' = [rlOut EXCEPT ![q] = IF tokens' < 0 THEN "429" ELSE "next"]
    /\ rlPc' = [rlPc EXCEPT ![q] = "done"]
    /\ UNCHANGED <<lastRefill, refillExpiry, now, rlLastRefill, rlNow>>

\* A second passes.
RateLimitClock ==
    /\ UNCHANGED outsideRateLimit
    /\ now < MaxNow
    /\ now' = now + 1
    /\ UNCHANGED <<tokens, lastRefill, refillExpiry, rlPc, rlLastRefill, rlNow, rlOut>>

\* ------------------------------------------------------------ MicroRateLimit
NumMicroCalls == 3 \* calls of one endpoint that pass the interceptor in one run
maxConcurrent == 1 \* MicroRateLimit's parameter maxConcurrent

MicroCalls == 1..NumMicroCalls

\* The command before the first call: no ticket taken, the circuit closed.
MicroInit ==
    /\ inFlight = 0
    /\ circuitOpen = FALSE
    /\ mPc = [i \in MicroCalls |-> "idle"]
    /\ mNext = [i \in MicroCalls |-> "none"]
    /\ mWhy = [i \in MicroCalls |-> "none"]
    /\ mRet = [i \in MicroCalls |-> "none"]

\* MicroRateLimit, lines 13-22: a call enters the interceptor, which configures
\* the command; its local err is nil.
MicroEnter(i) ==
    /\ UNCHANGED outsideMicro
    /\ mPc[i] = "idle"
    /\ mPc' = [mPc EXCEPT ![i] = "do"]
    /\ UNCHANGED <<inFlight, circuitOpen, mNext, mWhy, mRet>>

\* The interceptor returns its local err (line 30): what next returned if next has
\* run and finished, nil otherwise.  What hystrix.Do returned is not looked at.
Returned(i, why) ==
    /\ mWhy' = [mWhy EXCEPT ![i] = why]
    /\ mRet' = [mRet EXCEPT ![i] = IF mNext'[i] = "err" THEN "err" ELSE "nil"]
    /\ mPc' = [mPc EXCEPT ![i] = "done"]

\* MicroRateLimit, lines 23-30: hystrix.Do with the circuit open or with no ticket
\* left runs the fallback, not next, and returns the fallback's error; otherwise it
\* takes a ticket and starts next.
MicroDo(i) ==
    /\ UNCHANGED outsideMicro
    /\ mPc[i] = "do"
    /\ IF circuitOpen \/ inFlight >= maxConcurrent
       THEN /\ UNCHANGED <<inFlight, mNext>>
            /\ Returned(i, IF circuitOpen THEN "open" ELSE "max")
       ELSE /\ inFlight' = inFlight + 1
            /\ mPc' = [mPc EXCEPT ![i] = "running"]
            /\ UNCHANGED <<mNext, mWhy, mRet>>
    /\ UNCHANGED circuitOpen

\* MicroRateLimit, lines 23-30: next returns nil or an error, which the closure
\* stores in err; the ticket is given back and hystrix.Do returns.
MicroNextReturns(i) ==
    /\ UNCHANGED outsideMicro
    /\ mPc[i] = "running"
    /\ \E e \in {"nil", "err"} : mNext' = [mNext EXCEPT ![i] = e]
    /\ inFlight' = inFlight - 1
    /\ Returned(i, "ran")
    /\ UNCHANGED circuitOpen

\* MicroRateLimit, lines 18-30: next is still running when the command's timeout
\* (3000 ms) passes; hystrix.Do gives the ticket back, runs the fallback and
\* returns while next goes on in its goroutine.
MicroTimeout(i) ==
    /\ UNCHANGED outsideMicro
    /\ mPc[i] = "running"
    /\ inFlight' = inFlight - 1
    /\ mNext' = mNext
    /\ Returned(i, "timeout")
    /\ UNCHANGED circuitOpen

\* The command's circuit opens after failed calls and closes again after its sleep
\* window.
MicroCircuit ==
    /\ UNCHANGED outsideMicro
    /\ \/ circuitOpen
       \/ \E i \in MicroCalls : mWhy[i] \in {"max", "timeout"} \/ mNext[i] = "err"
    /\ circuitOpen' = ~circuitOpen
    /\ UNCHANGED <<inFlight, mPc, mNext, mWhy, mRet>>

\* ------------------------------------------------------------ a shared instance
\* Two goroutines that use one instance; each calls Lock, then Unlock once its
\* Lock has returned nil, as main's clients do.  The store answers every request.
Goroutines == {1, 2}

SharedInit ==
    /\ shLive = {}
    /\ shKeyed = {}
    /\ shCount = 0
    /\ sharedSession = 0
    /\ sharedMutex = 0
    /\ gPc = [g \in Goroutines |-> "idle"]
    /\ gSession = [g \in Goroutines |-> 0]
    /\ gMine = [g \in Goroutines |-> 0]
    /\ gReleased = [g \in Goroutines |-> 0]
    /\ gClosed = [g \in Goroutines |-> 0]
    /\ gOut = [g \in Goroutines |-> "none"]

\* Lock, lines 58-69: NewSession, NewMutex and the enroll of mutex.Lock.
SharedLock(g) ==
    /\ UNCHANGED outsideShared
    /\ gPc[g] = "idle" /\ gMine[g] = 0 /\ shCount < MaxLease
    /\ shCount' = shCount + 1
    /\ shLive' = shLive \cup {shCount'}
    /\ shKeyed' = shKeyed \cup {shCount'}
    /\ gSession' = [gSession EXCEPT ![g] = shCount']
    /\ gPc' = [gPc EXCEPT ![g] = "wait"]
    /\ gOut' = [gOut EXCEPT ![g] = "none"]
    /\ UNCHANGED <<sharedSession, sharedMutex, gMine, gReleased, gClosed>>

\* Lock, lines 69 and 75: mutex.Lock returns when no earlier key is left, and the
\* session is saved.
SharedSaveSession(g) ==
    /\ UNCHANGED outsideShared
    /\ gPc[g] = "wait"
    /\ \A L \in shKeyed : L >= gSession[g]
    /\ sharedSession' = gSession[g]
    /\ gPc' = [gPc EXCEPT ![g] = "save"]
    /\ UNCHANGED <<shLive, shKeyed, shCount, sharedMutex, gSession, gMine, gReleased,
                   gClosed, gOut>>

\* Lock, lines 76-78: the mutex is saved and Lock returns nil.
SharedSaveMutex(g) ==
    /\ UNCHANGED outsideShared
    /\ gPc[g] = "save"
    /\ sharedMutex' = gSession[g]
    /\ gMine' = [gMine EXCEPT ![g] = gSession[g]]
    /\ gSession' = [gSession EXCEPT ![g] = 0]
    /\ gOut' = [gOut EXCEPT ![g] = "nil"]
    /\ gPc' = [gPc EXCEPT ![g] = "idle"]
    /\ UNCHANGED <<shLive, shKeyed, shCount, sharedSession, gReleased, gClosed>>

\* The goroutine ends in a nil pointer dereference.
Panics(g) ==
    /\ gPc' = [gPc EXCEPT ![g] = "panic"]
    /\ gOut' = [gOut EXCEPT ![g] = "panic"]

\* Unlock, lines 84-86: the not-held check.
SharedUnlock(g) ==
    /\ UNCHANGED outsideShared
    /\ gPc[g] = "idle" /\ gMine[g] # 0
    /\ IF sharedMutex = 0 \/ sharedSession = 0
       THEN /\ gOut' = [gOut EXCEPT ![g] = "ErrNotHeld"]
            /\ gMine' = [gMine EXCEPT ![g] = 0]
            /\ UNCHANGED gPc
       ELSE /\ gPc' = [gPc EXCEPT ![g] = "release"]
            /\ gOut' = [gOut EXCEPT ![g] = "none"]
            /\ UNCHANGED gMine
    /\ UNCHANGED <<shLive, shKeyed, shCount, sharedSession, sharedMutex, gSession,
                   gReleased, gClosed>>

\* Unlock, line 90: l.mutex.Unlock deletes the key of the mutex the field holds now.
SharedRelease(g) ==
    /\ UNCHANGED outsideShared
    /\ gPc[g] = "release"
    /\ IF sharedMutex = 0
       THEN Panics(g) /\ UNCHANGED <<shKeyed, gReleased>>
       ELSE /\ shKeyed' = shKeyed \ {sharedMutex}
            /\ gReleased' = [gReleased EXCEPT ![g] = sharedMutex]
            /\ gPc' = [gPc EXCEPT ![g] = "close"]
            /\ UNCHANGED gOut
    /\ UNCHANGED <<shLive, shCount, sharedSession, sharedMutex, gSession, gMine, gClosed>>

\* Unlock, line 95: l.session.Close() revokes the lease of the session the field
\* holds now, and with it the key attached to it.
SharedClose(g) ==
    /\ UNCHANGED outsideShared
    /\ gPc[g] = "close"
    /\ IF sharedSession = 0
       THEN Panics(g) /\ UNCHANGED <<shLive, shKeyed, gClosed>>
       ELSE /\ shLive' = shLive \ {sharedSession}
            /\ shKeyed' = shKeyed \ {sharedSession}
            /\ gClosed' = [gClosed EXCEPT ![g] = sharedSession]
            /\ gPc' = [gPc EXCEPT ![g] = "reset"]
            /\ UNCHANGED gOut
    /\ UNCHANGED <<shCount, sharedSession, sharedMutex, gSession, gMine, gReleased>>

\* Unlock, lines 98-101: both fields are set to nil and Unlock returns nil.
SharedReset(g) ==
    /\ UNCHANGED outsideShared
    /\ gPc[g] = "reset"
    /\ sharedSession' = 0
    /\ sharedMutex' = 0
    /\ gMine' = [gMine EXCEPT ![g] = 0]
    /\ gOut' = [gOut EXCEPT ![g] = "nil"]
    /\ gPc' = [gPc EXCEPT ![g] = "idle"]
    /\ UNCHANGED <<shLive, shKeyed, shCount, gSession, gReleased, gClosed>>

\* NewEtcdDistLock: the instance has a client and a prefix, no session, no mutex.
Init ==
    /\ leases = [L \in Leases |-> 0]
    /\ keys = [L \in Leases |-> 0]
    /\ nextLease = 0
    /\ nextRev = 0
    /\ owner = [L \in Leases |-> 0]
    /\ renewing = {}
    /\ etcdClient = [c \in Clients |-> "open"]
    /\ session = [c \in Clients |-> 0]
    /\ mutex = [c \in Clients |-> 0]
    /\ pc = [c \in Clients |-> "idle"]
    /\ lsession = [c \in Clients |-> 0]
    /\ myRev = [c \in Clients |-> 0]
    /\ ctxDone = [c \in Clients |-> FALSE]
    /\ pend = [c \in Clients |-> NoPend]
    /\ lockState = [c \in Clients |-> "Idle"]
    /\ lastGrant = 0
    /\ ret = NoRet
    /\ RegisterInit
    /\ RateLimitInit
    /\ MicroInit
    /\ SharedInit

\* ------------------------------------------------------------ Lock
\* Lock, lines 51-61: concurrency.NewSession grants a lease and starts its
\* keep-alive task.  (The client is never nil after NewEtcdDistLock.)
Lock(c, ups) ==
    /\ UNCHANGED outsideLock
    /\ pc[c] = "idle"
    /\ \E up \in ups :
          IF Reachable(c, up)
          THEN /\ nextLease < MaxLease
               /\ nextLease' = nextLease + 1
               /\ leases' = [leases EXCEPT ![nextLease'] = TTLTicks]
               /\ owner' = [owner EXCEPT ![nextLease'] = c]
               /\ renewing' = renewing \cup {nextLease'}
               /\ lsession' = [lsession EXCEPT ![c] = nextLease']
               /\ pc' = [pc EXCEPT ![c] = "enroll"]
               /\ ret' = NoRet
               /\ UNCHANGED <<keys, nextRev>>
          ELSE /\ ret' = Ret("Lock", c, "ErrSession", 0, session[c] # 0,
                             Pend("store", FALSE, FALSE, TRUE))
               /\ UNCHANGED <<storeVars, pc, lsession>>
    /\ UNCHANGED <<etcdClient, session, mutex, myRev, ctxDone, pend, lockState, lastGrant>>

\* Lock returns nil: lines 74-78 save the session and the mutex.
LockReturnsNil(c, rev, how) ==
    /\ session' = [session EXCEPT ![c] = lsession[c]]
    /\ mutex' = [mutex EXCEPT ![c] = rev]
    /\ lsession' = [lsession EXCEPT ![c] = 0]
    /\ myRev' = [myRev EXCEPT ![c] = 0]
    /\ pc' = [pc EXCEPT ![c] = "idle"]
    /\ ctxDone' = [ctxDone EXCEPT ![c] = FALSE]
    /\ lockState' = [lockState EXCEPT ![c] = "Held"]
    /\ lastGrant' = rev
    /\ ret' = Ret("Lock", c, "nil", lsession[c], session[c] # 0,
                  Pend(how, FALSE, FALSE, FALSE))
    /\ UNCHANGED pend

\* A failed mutex.Lock that also drops what the instance held before the call.
LockFailsClearing(c, cause, cleaned) ==
    /\ pc' = [pc EXCEPT ![c] = "lockfail"]
    /\ pend' = [pend EXCEPT ![c] = Pend(cause, cleaned, FALSE, TRUE)]
    /\ session' = [session EXCEPT ![c] = 0]
    /\ mutex' = [mutex EXCEPT ![c] = 0]
    /\ lockState' = [lockState EXCEPT ![c] = "Idle"]
    /\ ret' = NoRet
    /\ UNCHANGED <<lsession, myRev, ctxDone, lastGrant>>

\* mutex.Lock failed for the given cause: Lock goes on to session.Close() (line 70).
\* cleaned says whether the mutex's own withdrawal of its key succeeded.
LockFails(c, cause, cleaned) ==
    /\ pc' = [pc EXCEPT ![c] = "lockfail"]
    /\ pend' = [pend EXCEPT ![c] = Pend(cause, cleaned, FALSE, TRUE)]
    /\ ret' = NoRet
    /\ UNCHANGED <<session, mutex, lsession, myRev, ctxDone, lockState, lastGrant>>

\* Why a request made with the caller's ctx fails.
Cause(c) == IF ctxDone[c] THEN "ctx" ELSE "store"

\* mutex.Lock, tryAcquire (line 69): one transaction puts the key under the
\* session's lease and reads the oldest key of the prefix.  The caller owns the
\* lock at once when its key is the oldest.
LockEnroll(c, ups) ==
    /\ UNCHANGED outsideLock
    /\ pc[c] = "enroll"
    /\ \E up \in ups :
          IF ~ctxDone[c] /\ Reachable(c, up) /\ leases[lsession[c]] # 0
          THEN /\ nextRev' = nextRev + 1
               /\ keys' = [keys EXCEPT ![lsession[c]] = nextRev']
               /\ IF NoEarlierKey(nextRev')
                  THEN LockReturnsNil(c, nextRev', "none")
                  ELSE /\ myRev' = [myRev EXCEPT ![c] = nextRev']
                       /\ pc' = [pc EXCEPT ![c] = "wait"]
                       /\ ret' = NoRet
                       /\ UNCHANGED <<session, mutex, lsession, ctxDone, pend, lockState,
                                      lastGrant>>
          ELSE /\ LockFails(c, Cause(c), FALSE)
               /\ UNCHANGED <<keys, nextRev>>
    /\ UNCHANGED <<leases, nextLease, owner, renewing, etcdClient>>

\* mutex.Unlock(client.Ctx()) on a failed wait: the mutex deletes its own key with
\* the client's context, not the caller's; the result is dropped.
Withdraw(c, up) == IF Reachable(c, up) THEN [keys EXCEPT ![lsession[c]] = 0] ELSE keys

\* mutex.Lock, waitDeletes (line 69): blocks until every key created before myRev
\* is deleted, or until ctx is done.
LockWait(c, ups) ==
    /\ UNCHANGED outsideLock
    /\ pc[c] = "wait"
    /\ IF ctxDone[c]
       THEN \E up \in ups :
               /\ keys' = Withdraw(c, up)
               /\ LockFails(c, "ctx", Reachable(c, up))
       ELSE /\ Reachable(c, TRUE) /\ NoEarlierKey(myRev[c])
            /\ pc' = [pc EXCEPT ![c] = "verify"]
            /\ ret' = NoRet
            /\ UNCHANGED <<keys, session, mutex, lsession, myRev, ctxDone, pend,
                           lockState, lastGrant>>
    /\ UNCHANGED <<leases, nextLease, nextRev, owner, renewing, etcdClient>>

\* mutex.Lock, after waitDeletes (line 69): reads its own key back; a key that is
\* gone means the session expired while waiting (ErrSessionExpired).
LockVerify(c, ups) ==
    /\ UNCHANGED outsideLock
    /\ pc[c] = "verify"
    /\ \E up \in ups :
          IF ~ctxDone[c] /\ Reachable(c, up)
          THEN IF keys[lsession[c]] # 0
               THEN LockReturnsNil(c, myRev[c], "waited") /\ UNCHANGED keys
               ELSE LockFails(c, "expired", FALSE) /\ UNCHANGED keys
          ELSE \E up2 \in ups :
                  /\ keys' = Withdraw(c, up2)
                  /\ LockFails(c, Cause(c), Reachable(c, up2))
    /\ UNCHANGED <<leases, nextLease, nextRev, owner, renewing, etcdClient>>

\* session.Close() revokes the lease: whether the revoke of lease L succeeds.  A
\* revoke that succeeds removes the lease and the key attached to it; revoking a
\* lease that is gone is an error.
Revoked(c, L, up) == Reachable(c, up) /\ leases[L] # 0

\* Lock, lines 70-71: session.Close() after a failed mutex.Lock (its result
\* dropped), then the error.
LockFailClose(c, ups) ==
    /\ UNCHANGED outsideLock
    /\ pc[c] = "lockfail"
    /\ renewing' = renewing \ {lsession[c]}
    /\ \E up \in ups :
          /\ IF Revoked(c, lsession[c], up)
             THEN /\ leases' = DropLease(leases, lsession[c])
                  /\ keys' = DropLease(keys, lsession[c])
                  /\ owner' = DropLease(owner, lsession[c])
             ELSE UNCHANGED <<leases, keys, owner>>
          /\ ret' = Ret("Lock", c, "ErrAcquire", lsession[c], session[c] # 0,
                        [pend[c] EXCEPT !.cleaned = @ \/ Revoked(c, lsession[c], up)])
    /\ pend' = [pend EXCEPT ![c] = NoPend]
    /\ lsession' = [lsession EXCEPT ![c] = 0]
    /\ myRev' = [myRev EXCEPT ![c] = 0]
    /\ ctxDone' = [ctxDone EXCEPT ![c] = FALSE]
    /\ pc' = [pc EXCEPT ![c] = "idle"]
    /\ UNCHANGED <<nextLease, nextRev, etcdClient, session, mutex, lockState, lastGrant>>

\* ------------------------------------------------------------ Unlock
\* Unlock, lines 84-92: the not-held check, then mutex.Unlock deletes the key with
\* the caller's ctx.  Deleting a key that is already gone is not an error.
Unlock(c, ups) ==
    /\ UNCHANGED outsideLock
    /\ pc[c] = "idle"
    /\ IF mutex[c] = 0 \/ session[c] = 0
       THEN /\ ret' = Ret("Unlock", c, "ErrNotHeld", 0, FALSE, NoPend)
            /\ UNCHANGED <<keys, pc, pend>>
       ELSE \E up \in ups :
               IF Reachable(c, up)
               THEN /\ keys' = [keys EXCEPT ![session[c]] = 0]
                    /\ pc' = [pc EXCEPT ![c] = "unlockclose"]
                    /\ pend' = [pend EXCEPT ![c] =
                                   Pend("none", TRUE, leases[session[c]] = 0, FALSE)]
                    /\ ret' = NoRet
               ELSE /\ ret' = Ret("Unlock", c, "ErrRelease", session[c], TRUE,
                                  Pend("store", FALSE, leases[session[c]] = 0, TRUE))
                    /\ UNCHANGED <<keys, pc, pend>>
    /\ UNCHANGED <<leases, nextLease, nextRev, owner, renewing, etcdClient,
                   session, mutex, lsession, myRev, ctxDone, lockState, lastGrant>>

\* A release that leaves the instance's fields as they were.
ResetKept(f, c) == f

\* Unlock, lines 97-99: the instance's fields after a release.
Reset(f, c) == [f EXCEPT ![c] = 0]

\* Unlock, lines 95-101: session.Close() with its result dropped, the fields reset,
\* nil returned.
UnlockClose(c, ups) ==
    /\ UNCHANGED outsideLock
    /\ pc[c] = "unlockclose"
    /\ renewing' = renewing \ {session[c]}
    /\ \E up \in ups :
          /\ IF Revoked(c, session[c], up)
             THEN /\ leases' = DropLease(leases, session[c])
                  /\ keys' = DropLease(keys, session[c])
                  /\ owner' = DropLease(owner, session[c])
             ELSE UNCHANGED <<leases, keys, owner>>
          /\ ret' = Ret("Unlock", c, "nil", session[c], TRUE,
                        [pend[c] EXCEPT !.storeErr = ~Revoked(c, session[c], up)])
    /\ pend' = [pend EXCEPT ![c] = NoPend]
    /\ session' = Reset(session, c)
    /\ mutex' = Reset(mutex, c)
    /\ pc' = [pc EXCEPT ![c] = "idle"]
    /\ lockState' = [lockState EXCEPT ![c] = "Released"]
    /\ UNCHANGED <<nextLease, nextRev, etcdClient, lsession, myRev, ctxDone, lastGrant>>

\* ------------------------------------------------------------ Close
\* Close: closes the etcd client, which cancels the context its sessions' keep-alive
\* tasks run under.  Nothing is revoked and no key is deleted.
Close(c) ==
    /\ UNCHANGED outsideLock
    /\ pc[c] = "idle"
    /\ etcdClient[c] = "open"
    /\ etcdClient' = [etcdClient EXCEPT ![c] = "closed"]
    /\ renewing' = {L \in renewing : owner[L] # c}
    /\ ret' = Ret("Close", c, "nil", session[c], session[c] # 0,
                  Pend("none", FALSE, session[c] # 0 /\ leases[session[c]] = 0, FALSE))
    /\ UNCHANGED <<leases, keys, nextLease, nextRev, owner, localVars>>

\* ------------------------------------------------------------ environment
\* The caller's context is cancelled or reaches its deadline while Lock is pending
\* (main gives every client a 30 s deadline).
CtxExpire(c) ==
    /\ UNCHANGED outsideLock
    /\ pc[c] \in {"enroll", "wait", "verify"} /\ ~ctxDone[c]
    /\ ctxDone' = [ctxDone EXCEPT ![c] = TRUE]
    /\ ret' = NoRet
    /\ UNCHANGED <<storeVars, etcdClient, session, mutex, pc, lsession, myRev,
                   pend, lockState, lastGrant>>

\* The client process is killed: its memory is gone, it takes no further step and
\* its keep-alive tasks stop; nothing is revoked.  lockState stays "Held" for a
\* client killed while its entry was in the store.
Kill(c) ==
    /\ UNCHANGED outsideLock
    /\ pc[c] # "dead"
    /\ pc' = [pc EXCEPT ![c] = "dead"]
    /\ renewing' = {L \in renewing : owner[L] # c}
    /\ session' = [session EXCEPT ![c] = 0]
    /\ mutex' = [mutex EXCEPT ![c] = 0]
    /\ lsession' = [lsession EXCEPT ![c] = 0]
    /\ myRev' = [myRev EXCEPT ![c] = 0]
    /\ ctxDone' = [ctxDone EXCEPT ![c] = FALSE]
    /\ pend' = [pend EXCEPT ![c] = NoPend]
    /\ lockState' = [lockState EXCEPT ![c] =
                        IF lockState[c] = "Held" /\ session[c] # 0 /\ keys[session[c]] # 0
                        THEN "Held" ELSE "Idle"]
    /\ ret' = NoRet
    /\ UNCHANGED <<leases, keys, nextLease, nextRev, owner, etcdClient, lastGrant>>

\* A session's keep-alive task stops reaching the store (the process stalls or is
\* partitioned away for longer than the lease lasts): the lease is renewed no more.
Stall(L) ==
    /\ UNCHANGED outsideLock
    /\ L \in renewing
    /\ renewing' = renewing \ {L}
    /\ ret' = NoRet
    /\ UNCHANGED <<leases, keys, nextLease, nextRev, owner, etcdClient, localVars>>

\* A lease table that no tick touches: leases would never run out.
LapseNever == leases

\* The lease table after one tick of the store's clock.  A session's keep-alive
\* task renews its lease several times per tick (every ttl/3); a lease that is not
\* renewed loses a tick.
Lapse == [L \in Leases |-> IF leases[L] = 0 \/ L \in renewing THEN leases[L]
                           ELSE leases[L] - 1]

\* The keys the store keeps after a tick: it deletes the key attached to a lease
\* that has run out.
ExpireKeys == [L \in Leases |-> IF Lapse[L] = 0 THEN 0 ELSE keys[L]]

\* One tick of the store's clock.
Tick ==
    /\ UNCHANGED outsideLock
    /\ Lapse # leases
    /\ leases' = Lapse
    /\ keys' = ExpireKeys
    /\ owner' = [L \in Leases |-> IF Lapse[L] = 0 THEN 0 ELSE owner[L]]
    /\ ret' = NoRet
    /\ UNCHANGED <<nextLease, nextRev, renewing, etcdClient, localVars>>

\* The steps of the program and its environment, with the outcomes ups of the
\* requests to the store.
Step(ups) ==
    \/ \E c \in Clients : Lock(c, ups)
    \/ \E c \in Clients : LockEnroll(c, ups)
    \/ \E c \in Clients : LockWait(c, ups)
    \/ \E c \in Clients : LockVerify(c, ups)
    \/ \E c \in Clients : LockFailClose(c, ups)
    \/ \E c \in Clients : Unlock(c, ups)
    \/ \E c \in Clients : UnlockClose(c, ups)
    \/ \E c \in Clients : Close(c)
    \/ \E c \in Clients : CtxExpire(c)
    \/ \E c \in Clients : Kill(c)
    \/ \E L \in Leases : Stall(L)
    \/ Tick

Next == Step(Answers)

Spec == Init /\ [][Next]_vars

\* The store answers every request of an open client; the store's clock runs and a
\* pending Lock call is scheduled (its watch fires, its goroutine runs).
NextUp == Step(Up)

LiveSpec ==
    /\ Init /\ [][NextUp]_vars
    /\ WF_vars(Tick)
    /\ \A c \in Clients : WF_vars(LockWait(c, Up)) /\ WF_vars(LockVerify(c, Up))

\* The user service handling concurrent Register calls.
RegisterNext ==
    \/ \E r \in Calls : RegisterCall(r)
    \/ \E r \in Calls : RegisterCheck(r)
    \/ \E r \in Calls : RegisterInsert(r)

RegisterSpec == Init /\ [][RegisterNext]_vars

\* The requests of one client to one path passing through RateLimit.
RateLimitNext ==
    \/ \E q \in Requests : RateLimitSetNX(q)
    \/ \E q \in Requests : RateLimitGet(q)
    \/ \E q \in Requests : RateLimitRefill(q)
    \/ \E q \in Requests : RateLimitDecr(q)
    \/ RateLimitClock

RateLimitSpec == Init /\ [][RateLimitNext]_vars

\* The calls of one endpoint passing through MicroRateLimit.
MicroNext ==
    \/ \E i \in MicroCalls : MicroEnter(i)
    \/ \E i \in MicroCalls : MicroDo(i)
    \/ \E i \in MicroCalls : MicroNextReturns(i)
    \/ \E i \in MicroCalls : MicroTimeout(i)
    \/ MicroCircuit

MicroSpec == Init /\ [][MicroNext]_vars

\* Two goroutines on one instance.
SharedNext ==
    \/ \E g \in Goroutines : SharedLock(g)
    \/ \E g \in Goroutines : SharedSaveSession(g)
    \/ \E g \in Goroutines : SharedSaveMutex(g)
    \/ \E g \in Goroutines : SharedUnlock(g)
    \/ \E g \in Goroutines : SharedRelease(g)
    \/ \E g \in Goroutines : SharedClose(g)
    \/ \E g \in Goroutines : SharedReset(g)

SharedSpec == Init /\ [][SharedNext]_vars

\* ------------------------------------------------------------ properties
\* Client c is inside the protected section: its Lock returned nil, it has not
\* released since, and none of its calls is in progress.
InSection(c) == lockState[c] = "Held" /\ pc[c] = "idle"

\* The queue entry client c acquired with is still in the store.
EntryLive(c) == session[c] # 0 /\ keys[session[c]] # 0

\* C1, as stated: two clients are never inside the protected section at the same
\* time, lease expiry included.
MutualExclusion == Cardinality({c \in Clients : InSection(c)}) <= 1

\* C1, amended: of the clients inside the protected section at most one has its
\* queue entry still in the store; a holder whose lease ran out is still inside
\* its section when the next client's Lock returns nil.
LiveMutualExclusion == Cardinality({c \in Clients : InSection(c) /\ EntryLive(c)}) <= 1

\* C1's case: one client is inside the section with a live entry while another
\* waits behind it.
HolderAndWaiter ==
    \E c, d \in Clients : InSection(c) /\ EntryLive(c) /\ pc[d] = "wait"

UnlockRejection ==
    [][ret'.op = "Unlock" =>
          /\ ret'.err = "nil" => lockState[ret'.who] = "Held"
          /\ lockState[ret'.who] # "Held" => ret'.err = "ErrNotHeld"]_vars

\* C3's case: an Unlock after a successful Unlock returned the not-held error.
SecondUnlockRejected ==
    ret.op = "Unlock" /\ ret.err = "ErrNotHeld" /\ lockState[ret.who] = "Released"

\* Lock returned because its context ended.
LockTimedOut == ret.op = "Lock" /\ ret.err = "ErrAcquire" /\ ret.cause = "ctx"

\* C4: when Lock returns because its context ended while it waited, no entry of
\* the caller is left in the queue.
TimeoutLeavesNoEntry == LockTimedOut => keys[ret.lease] = 0

\* Client w waits and every entry ahead of it belongs to a killed client.
BehindKilledOnly(w) ==
    /\ pc[w] = "wait"
    /\ \E L \in Leases : keys[L] # 0 /\ keys[L] < myRev[w]
    /\ \A L \in Leases : (keys[L] # 0 /\ keys[L] < myRev[w]) => pc[owner[L]] = "dead"

\* The Lock call of w is over with the lock granted, or it ended for a reason of its
\* own (its context ended, its own session expired, its process was killed).
GrantedOrOwnFailure(w) ==
    \/ pc[w] = "idle" /\ lockState[w] = "Held"
    \/ pc[w] \in {"lockfail", "dead"}

\* The lease of a killed client has at most one TTL left and is never renewed, and
\* an entry is in the store only while its lease is.
KilledLeasesRunOut ==
    \A L \in Leases :
        /\ keys[L] # 0 => leases[L] # 0
        /\ (leases[L] # 0 /\ pc[owner[L]] = "dead") =>
              /\ leases[L] <= TTLTicks
              /\ L \notin renewing
              /\ leases'[L] <= leases[L]

CancelledEntryWithdrawn ==
    \A L \in Leases :
        (keys[L] # 0 /\ pc[owner[L]] # "dead" /\ etcdClient[owner[L]] = "open") =>
            L \in {session[owner[L]], lsession[owner[L]]}

\* C7: after Close on an instance that holds a session, the session's lease and the
\* entry attached to it are gone.
CloseTearsDown ==
    (ret.op = "Close" /\ ret.held) => (leases[ret.lease] = 0 /\ keys[ret.lease] = 0)

\* C8: on every return of Lock or Unlock that ends a lock cycle (a failed Lock, an
\* Unlock of a held lock whatever it returns) the session the call worked on is
\* closed: its lease is renewed no more.
SessionClosedOnEveryPath ==
    /\ (ret.op = "Lock" /\ ret.err # "nil") => ret.lease \notin renewing
    /\ (ret.op = "Unlock" /\ ret.held) => ret.lease \notin renewing

\* C9: an Unlock called after the session's lease expired returns an error.
LostLockReported ==
    (ret.op = "Unlock" /\ ret.held /\ ret.lost) => ret.err # "nil"

\* C10: Unlock returns nil only if no store request of the call failed (the
\* release delete and the session close both succeeded), and Lock returns nil only
\* if its entry is in the store as the oldest one.
NoSwallowedErrors ==
    /\ (ret.op = "Unlock" /\ ret.err = "nil") => ~ret.storeErr
    /\ (ret.op = "Lock" /\ ret.err = "nil") =>
          keys[ret.lease] # 0 /\ NoEarlierKey(keys[ret.lease])

\* The state of client c's pending acquire attempt, from the position of its Lock
\* call: the attempt begins with the enroll of mutex.Lock.
Attempt(c) ==
    CASE pc[c] = "enroll" -> "Enrolling"
      [] pc[c] \in {"wait", "verify"} -> "Waiting"
      [] pc[c] = "lockfail" -> "Failed"
      [] pc[c] = "dead" -> "Dead"
      [] OTHER -> "None"

\* The transitions of an attempt; an attempt that ends in Held or that has reported
\* its failure leaves no pending attempt.
AttemptTransitions ==
    {<<"None", "Enrolling">>, <<"Enrolling", "Waiting">>, <<"Enrolling", "None">>,
     <<"Waiting", "None">>, <<"Enrolling", "Failed">>, <<"Waiting", "Failed">>,
     <<"Failed", "None">>}

\* C11: an acquire attempt moves only Idle -> Enrolling -> Waiting -> Held, or
\* Enrolling -> Held; Failed is entered only from Enrolling or Waiting and ends with
\* an error that leaves the instance as it was; an instance becomes Held only as
\* its attempt ends with the minimum live revision, and leaves Held only to
\* Released by a nil-returning Unlock.
ProtocolStateMachine ==
    [][\A c \in Clients :
          \/ pc'[c] = "dead"
          \/ /\ Attempt(c)' # Attempt(c) => <<Attempt(c), Attempt(c)'>> \in AttemptTransitions
             /\ (Attempt(c) \in {"Enrolling", "Waiting"} /\ Attempt(c)' = "None") =>
                   /\ ret' = Ret("Lock", c, "nil", lsession[c], session[c] # 0,
                                 Pend(ret'.cause, FALSE, FALSE, FALSE))
                   /\ lockState'[c] = "Held" /\ session'[c] = lsession[c]
                   /\ keys'[session'[c]] # 0
                   /\ \A L \in Leases : keys'[L] # 0 => keys'[L] >= keys'[session'[c]]
             /\ (Attempt(c) = "Failed" /\ Attempt(c)' = "None") =>
                   /\ ret'.op = "Lock" /\ ret'.who = c /\ ret'.err = "ErrAcquire"
                   /\ lockState'[c] = lockState[c]
             /\ Attempt(c)' = "Failed" => lockState'[c] = lockState[c]
             /\ lockState'[c] # lockState[c] =>
                   \/ /\ lockState'[c] = "Held"
                      /\ Attempt(c) \in {"Enrolling", "Waiting"}
                   \/ /\ lockState[c] = "Held" /\ lockState'[c] = "Released"
                      /\ ret'.op = "Unlock" /\ ret'.who = c /\ ret'.err = "nil"]_vars

\* C11's case: one attempt has failed while waiting behind an instance that is Held.
FailedBehindHeld ==
    \E c, d \in Clients :
        /\ c # d /\ pc[c] = "lockfail" /\ myRev[c] # 0
        /\ InSection(d) /\ EntryLive(d)

UniqueRegistration ==
    \A u \in Usernames :
        Cardinality({r \in Calls : rsp[r].Code = 0 /\ req[r].Username = u}) <= 1

\* C14: the token counter is never below zero, a rejected request found no token
\* and took none, and the first request under a fresh limitKey is admitted.
RejectionDoesNotConsume ==
    /\ tokens >= 0
    /\ \A q \in Requests :
          (rlOut[q] # "none" /\ \A o \in Requests \ {q} : rlPc[o] = "idle") =>
              rlOut[q] # "429"

\* C15: the interceptor returns nil only if next ran and returned nil; a call that
\* the Hystrix command rejected or timed out returns an error.
LimiterRejectionsReported ==
    \A i \in MicroCalls :
        /\ mRet[i] = "nil" => mNext[i] = "nil"
        /\ mWhy[i] \in {"max", "open", "timeout"} => mRet[i] = "err"

\* C16: on a shared instance an Unlock closes only the session whose key it
\* deleted, and a goroutine whose Lock returned nil finds the instance holding its
\* session and mutex, with its lease live, until it unlocks.
SharedInstanceSafe ==
    \A g \in Goroutines :
        /\ gPc[g] = "reset" => gClosed[g] = gReleased[g]
        /\ (gPc[g] = "idle" /\ gMine[g] # 0) =>
              /\ sharedSession = gMine[g] /\ sharedMutex = gMine[g]
              /\ gMine[g] \in shLive

\* A Lock call of instance c is in progress.
InLock(c) == pc[c] \in {"enroll", "wait", "verify", "lockfail"}

\* C17: from its first step to an error return a Lock call leaves the instance's
\* session and mutex as they were, and an Unlock on an instance that holds nothing
\* returns the not-held error without a request to the store.
FailedLockChangesNothing ==
    [][\A c \in Clients :
          /\ ( /\ InLock(c) \/ InLock(c)'
               /\ pc'[c] # "dead"
               /\ ~(ret'.op = "Lock" /\ ret'.who = c /\ ret'.err = "nil") ) =>
                (session'[c] = session[c] /\ mutex'[c] = mutex[c])
          /\ (ret'.op = "Lock" /\ ret'.who = c /\ ret'.err # "nil") =>
                /\ session'[c] = session[c] /\ mutex'[c] = mutex[c]
                /\ lockState'[c] = lockState[c]
          /\ (ret'.op = "Unlock" /\ ret'.who = c /\ (session[c] = 0 \/ mutex[c] = 0)) =>
                /\ ret'.err = "ErrNotHeld"
                /\ UNCHANGED <<storeVars, session, mutex>>]_vars

\* C17's case: a Lock on an instance that already holds has failed, and the
\* instance still has the session and the mutex it had.
FailedRelockKeepsHandle ==
    /\ ret.op = "Lock" /\ ret.err = "ErrAcquire" /\ ret.held
    /\ session[ret.who] # 0 /\ mutex[ret.who] # 0 /\ session[ret.who] # ret.lease

====
